---- MODULE Spec2Model ----
(***************************************************************************)
(* Boundary constraint components of TopFarm2                              *)
(* (topfarm/constraint_components/boundary.py): signed distances from      *)
(* turbine positions to a boundary, their gradients, the one-slot cache,   *)
(* satisfy, and the merging of inclusion/exclusion zones.                  *)
(*                                                                         *)
(* Numbers.  The program computes in floating point; the model computes    *)
(* the same real quantities exactly, over the integers:                    *)
(*   - a position is a pair <<x, y>> of integers;                          *)
(*   - a unit vector is a record [x, y, len2] standing for                 *)
(*     (x, y) / sqrt(len2);                                                *)
(*   - a convex face distance is a record [num, len2] standing for         *)
(*     num / sqrt(len2);                                                   *)
(*   - a polygon distance is a record [s, n, d] standing for               *)
(*     s * sqrt(n / d), s in {-1, 0, 1};                                   *)
(*   - a position returned by satisfy is a triple <<xn, yn, q>> standing   *)
(*     for (xn / q, yn / q).                                               *)
(***************************************************************************)
EXTENDS Integers, Sequences, FiniteSets, TLC

VARIABLES
    boundary_type,   \* XYBoundaryConstraint.boundary_type ("circle" for CircleBoundaryConstraint)
    comp,            \* the boundary component built by the constructor
    cache_input,     \* PolygonBoundaryComp._cache_input
    cache_output,    \* PolygonBoundaryComp._cache_output
    call,            \* the last call made on the component and its arguments
    ret,             \* what that call returned (or the exception it raised)
    n_grad_eval      \* problem.cost_comp.n_grad_eval

vars == <<boundary_type, comp, cache_input, cache_output, call, ret, n_grad_eval>>

(***************************************************************************)
(* Arithmetic helpers                                                      *)
(***************************************************************************)
Abs(a) == IF a < 0 THEN -a ELSE a

Sgn(a) == IF a < 0 THEN -1 ELSE IF a > 0 THEN 1 ELSE 0

Sub(u, v) == <<u[1] - v[1], u[2] - v[2]>>

Dot(u, v) == u[1] * v[1] + u[2] * v[2]

Cross2(u, v) == u[1] * v[2] - u[2] * v[1]

Norm2(u) == Dot(u, u)

RECURSIVE GCD(_, _)
GCD(a, b) == IF b = 0 THEN a ELSE GCD(b, a % b)

RECURSIVE SqrtSearch(_, _, _)
SqrtSearch(n, lo, hi) ==
    IF lo >= hi THEN lo
    ELSE LET mid == (lo + hi + 1) \div 2
         IN IF mid * mid <= n THEN SqrtSearch(n, mid, hi) ELSE SqrtSearch(n, lo, mid - 1)

\* floor of the square root of n (exact on the perfect squares the model's geometries give)
ISqrt(n) == SqrtSearch(n, 0, IF n < 46340 THEN n ELSE 46340)

SeqMin(s) == CHOOSE a \in {s[k] : k \in 1..Len(s)} : \A k \in 1..Len(s) : a <= s[k]

SeqMax(s) == CHOOSE a \in {s[k] : k \in 1..Len(s)} : \A k \in 1..Len(s) : a >= s[k]

Range(s) == {s[k] : k \in 1..Len(s)}

(***************************************************************************)
(* ConvexBoundaryComp                                                      *)
(***************************************************************************)
\* The hull's next vertex after p, counter-clockwise: every other point is on the
\* left of p -> q, or on the segment p q (points on a hull edge are no vertices).
HullNext(S, p) ==
    CHOOSE q \in S \ {p} :
        \A r \in S \ {p, q} :
            \/ Cross2(Sub(q, p), Sub(r, p)) > 0
            \/ /\ Cross2(Sub(q, p), Sub(r, p)) = 0
               /\ Dot(Sub(r, p), Sub(r, q)) < 0

RECURSIVE HullWalk(_, _, _)
HullWalk(S, start, p) ==
    LET q == HullNext(S, p)
    IN IF q = start THEN <<p>> ELSE <<p>> \o HullWalk(S, start, q)

\* scipy.spatial.ConvexHull(points).vertices: the hull's vertices in
\* counter-clockwise order (the walk starts at the lowest, then leftmost, point)
ConvexHull(xy) ==
    LET S == Range(xy)
        start == CHOOSE p \in S : \A q \in S : p[2] < q[2] \/ (p[2] = q[2] /\ p[1] <= q[1])
    IN HullWalk(S, start, start)

\* calculate_boundary_and_normals, first part: the vertices per boundary type
ConvexVertices(type, xy) ==
    LET xs == [k \in 1..Len(xy) |-> xy[k][1]]
        ys == [k \in 1..Len(xy) |-> xy[k][2]]
        min_ == <<SeqMin(xs), SeqMin(ys)>>
        max_ == <<SeqMax(xs), SeqMax(ys)>>
        range_ == Sub(max_, min_)
        \* coordinates are kept doubled until the division by 2 is known to be exact
        x_c2 == 2 * min_[1] + range_[1]
        y_c2 == 2 * min_[2] + range_[2]
        rmax == IF range_[1] > range_[2] THEN range_[1] ELSE range_[2]
    IN CASE type = "convex_hull" -> ConvexHull(xy)
         [] type = "square" ->
                << <<(x_c2 - rmax) \div 2, (y_c2 - rmax) \div 2>>,
                   <<(x_c2 + rmax) \div 2, (y_c2 - rmax) \div 2>>,
                   <<(x_c2 + rmax) \div 2, (y_c2 + rmax) \div 2>>,
                   <<(x_c2 - rmax) \div 2, (y_c2 + rmax) \div 2>> >>
         [] type = "rectangle" ->
                << <<(x_c2 - range_[1]) \div 2, (y_c2 - range_[2]) \div 2>>,
                   <<(x_c2 + range_[1]) \div 2, (y_c2 - range_[2]) \div 2>>,
                   <<(x_c2 + range_[1]) \div 2, (y_c2 + range_[2]) \div 2>>,
                   <<(x_c2 - range_[1]) \div 2, (y_c2 + range_[2]) \div 2>> >>

\* a face normal turned to the other side of its face
UnitNormalOutward(v, j) ==
    LET nxt == IF j < Len(v) THEN v[j + 1] ELSE v[1]
        normal == <<-(nxt[2] - v[j][2]), nxt[1] - v[j][1]>>
    IN [x |-> normal[1], y |-> normal[2], len2 |-> Norm2(normal)]

\* calculate_boundary_and_normals, second part: the unit normal of face j, the
\* face from vertex j to vertex j + 1 (the last face closes the shape)
UnitNormal(v, j) ==
    LET nxt == IF j < Len(v) THEN v[j + 1] ELSE v[1]
        normal == <<nxt[2] - v[j][2], -(nxt[1] - v[j][1])>>
    IN [x |-> normal[1], y |-> normal[2], len2 |-> Norm2(normal)]

\* BoundaryBaseComp.__init__: the ring is closed when its ends differ
CloseRing(v) == IF v[1] # v[Len(v)] THEN v \o <<v[1]>> ELSE v

\* calculate_gradients: the derivative of the distance to face j with respect to
\* the point's x and y, vdot(vdot(dpa, n) * n, n) with dpa = (-1, 0) and (0, -1);
\* n . n = 1, so these are -n.x and -n.y
FaceGradient(n) == [x |-> -n.x, y |-> -n.y, len2 |-> n.len2]

\* ConvexBoundaryComp.__init__
ConvexBoundaryComp(type, xy) ==
    LET v == ConvexVertices(type, xy)
        normals == [j \in 1..Len(v) |-> UnitNormal(v, j)]
    IN [xy_boundary |-> CloseRing(v),
        nVertices |-> Len(v),
        unit_normals |-> normals,
        dfaceDistance |-> [j \in 1..Len(v) |-> FaceGradient(normals[j])]]

\* calculate_distance_to_boundary: for point P and face j, (vertex j - P) . n_j,
\* times n_j . n_j = 1; the vertices are xy_boundary[:-1]
FaceDistance(c, P, j) ==
    LET vertices == SubSeq(c.xy_boundary, 1, Len(c.xy_boundary) - 1)
        n == c.unit_normals[j]
    IN [num |-> Dot(Sub(vertices[j], P), <<n.x, n.y>>), len2 |-> n.len2]

\* ConvexBoundaryComp.distances: one row per point, one column per face
ConvexDistancesOf(c, pts) ==
    [i \in 1..Len(pts) |-> [j \in 1..Len(c.unit_normals) |-> FaceDistance(c, pts[i], j)]]

\* ConvexBoundaryComp.gradients: independent of the position
ConvexGradientsOf(c) == c.dfaceDistance

\* np.linspace(-a, a, 100): the number of samples per axis of satisfy's search window
NGrid == 100

\* a face distance num / sqrt(len2) as the rational [n, d] (the hull's edges have
\* integer lengths in the model's geometries); np.where(dist < 0, np.minimum(dist, -.01), dist)
ClippedDistance(fd) ==
    LET L == ISqrt(fd.len2)
    IN IF fd.num < 0 /\ 100 * fd.num > -L THEN [n |-> -1, d |-> 100] ELSE [n |-> fd.num, d |-> L]

RatLess(p, q) == p.n * q.d < q.n * p.d

\* d.min() over the faces of one point
RowMin(row) ==
    CHOOSE p \in Range(row) : \A q \in Range(row) : ~RatLess(q, p)

\* The displacement satisfy gives to a violating point with (clipped) face distances
\* `row`: the grid X, Y = np.meshgrid(v, v), v[k] = a * (2k - 99) / 99 with
\* a = |d.min()|; the mask m of the candidates with X * dx_ + Y * dy_ >= -d for every
\* face; np.argmin(X[m]**2 + Y[m]**2), the first minimum in row-major order.
\* A candidate is <<iy, ix>>. [found |-> FALSE] when the mask is empty (argmin raises).
\* The inequality of face j is taken times 99 * a.d * |n_j| * row[j].d > 0, which
\* leaves integers on both sides: cx * U(ix) + cy * U(iy) >= rhs.
GridMove(c, row) ==
    LET dmin == RowMin(row)
        a == [n |-> Abs(dmin.n), d |-> dmin.d]
        g == ConvexGradientsOf(c)
        U(k) == 2 * k - (NGrid - 1)
        face == [j \in 1..Len(row) |->
                    [cx |-> a.n * row[j].d * g[j].x,
                     cy |-> a.n * row[j].d * g[j].y,
                     rhs |-> -((NGrid - 1) * a.d * ISqrt(g[j].len2) * row[j].n)]] \o <<>>
        ok(cand) ==
            \A j \in 1..Len(face) :
                face[j].cx * U(cand[2]) + face[j].cy * U(cand[1]) >= face[j].rhs
        m == {cand \in (0..(NGrid - 1)) \X (0..(NGrid - 1)) : ok(cand)}
        norm(cand) == U(cand[1]) * U(cand[1]) + U(cand[2]) * U(cand[2])
        norms == {norm(cand) : cand \in m}
        least == CHOOSE v \in norms : \A w \in norms : v <= w
        firsts == {cand \in (0..(NGrid - 1)) \X (0..(NGrid - 1)) :
                      norm(cand) = least /\ ok(cand)}
        index == CHOOSE cand \in firsts :
                     \A e \in firsts : cand[1] * NGrid + cand[2] <= e[1] * NGrid + e[2]
    IN IF norms = {} THEN [found |-> FALSE]
       ELSE [found |-> TRUE, X |-> a.n * U(index[2]), Y |-> a.n * U(index[1]),
             q |-> (NGrid - 1) * a.d]

\* ConvexBoundaryComp.satisfy, the displacement the loop finds for each point of pts:
\* its GridMove when it has a negative face distance, none otherwise
ConvexMoves(c, pts) ==
    LET dist == ConvexDistancesOf(c, pts)
        rows == [i \in 1..Len(pts) |-> [j \in 1..Len(dist[i]) |-> ClippedDistance(dist[i][j])]]
    IN [i \in 1..Len(pts) |-> IF RowMin(rows[i]).n < 0 THEN GridMove(c, rows[i])
                              ELSE [found |-> TRUE, X |-> 0, Y |-> 0, q |-> 1]]

\* ConvexBoundaryComp.satisfy on the positions pts, given the displacements: the
\* points are moved in index order; the first point whose mask is empty raises
\* ValueError.  `inplace` tells whether state[x], state[y] were float arrays
\* (np.asarray then returns them, and the points moved before the exception stay
\* moved in the caller's state) or not (the caller's state is untouched).
ConvexSatisfyOf(pts, move, inplace) ==
    LET failed == {i \in 1..Len(pts) : ~move[i].found}
        first_failed == CHOOSE i \in failed : \A k \in failed : i <= k
        moved(i) == <<pts[i][1] * move[i].q + move[i].X,
                      pts[i][2] * move[i].q + move[i].Y, move[i].q>>
        same(i) == <<pts[i][1], pts[i][2], 1>>
    IN IF failed = {}
       THEN [status |-> "ok", state |-> [i \in 1..Len(pts) |-> moved(i)]]
       ELSE [status |-> "ValueError",
             state |-> [i \in 1..Len(pts) |->
                           IF inplace /\ i < first_failed THEN moved(i) ELSE same(i)]]

(***************************************************************************)
(* PolygonBoundaryComp                                                     *)
(***************************************************************************)
Reverse(s) == [k \in 1..Len(s) |-> s[Len(s) + 1 - k]]

\* np.sum((x1 - x2) * (y1 + y2)) over the edges of the closed ring v: twice the
\* signed area, positive for a counter-clockwise ring
RECURSIVE DoubleAreaFrom(_, _)
DoubleAreaFrom(v, k) ==
    IF k >= Len(v) THEN 0
    ELSE (v[k][1] - v[k + 1][1]) * (v[k][2] + v[k + 1][2]) + DoubleAreaFrom(v, k + 1)

DoubleArea(v) == DoubleAreaFrom(v, 1)

\* get_edges that keeps the winding it is given
get_edgesAsGiven(vertices, counter_clockwise) ==
    LET v == CloseRing(vertices)
    IN IF DoubleArea(v) = 0 THEN [ok |-> FALSE]
       ELSE [ok |-> TRUE,
             xy_boundary |-> SubSeq(v, 1, Len(v) - 1),
             A |-> SubSeq(v, 1, Len(v) - 1),
             B |-> SubSeq(v, 2, Len(v))]

\* get_boundary_properties.get_edges: close the ring, fail on zero area, reverse the
\* ring when its winding is not the requested one.  A = v[:-1], B = v[1:].
RECURSIVE get_edges(_, _)
get_edges(vertices, counter_clockwise) ==
    LET v == CloseRing(vertices)
        double_area == DoubleArea(v)
    IN IF double_area = 0 THEN [ok |-> FALSE]
       ELSE IF (counter_clockwise /\ double_area < 0) \/ (~counter_clockwise /\ double_area > 0)
       THEN get_edges(Reverse(v), counter_clockwise)
       ELSE [ok |-> TRUE,
             xy_boundary |-> SubSeq(v, 1, Len(v) - 1),
             A |-> SubSeq(v, 1, Len(v) - 1),
             B |-> SubSeq(v, 2, Len(v))]

\* get_boundary_properties: per edge k, A, B, AB, AB_len (as its square len2),
\* edge_unit_normal = (-dy, dx) / AB_len, A_normal = the mean of the unit normals of
\* edge k and of the edge before it (np.roll by 1), B_normal = A_normal of the next
\* edge (np.roll by -1).  A vertex normal is kept as the pair of its two summands.
get_boundary_properties(xy_boundary, inclusion_zone) ==
    LET e == get_edges(xy_boundary, inclusion_zone)
        n == Len(e.A)
        AB == [k \in 1..n |-> Sub(e.B[k], e.A[k])]
        edge_unit_normal ==
            [k \in 1..n |-> [x |-> -AB[k][2], y |-> AB[k][1], len2 |-> Norm2(AB[k])]]
        A_normal ==
            [k \in 1..n |-> <<edge_unit_normal[k],
                              edge_unit_normal[IF k = 1 THEN n ELSE k - 1]>>]
        B_normal == [k \in 1..n |-> A_normal[IF k = n THEN 1 ELSE k + 1]]
    IN IF ~e.ok THEN [ok |-> FALSE]
       ELSE [ok |-> TRUE, xy_boundary |-> e.xy_boundary,
             edges |-> [k \in 1..n |->
                          [A |-> e.A[k], B |-> e.B[k], AB |-> AB[k],
                           len2 |-> Norm2(AB[k]),
                           edge_unit_normal |-> edge_unit_normal[k],
                           A_normal |-> A_normal[k], B_normal |-> B_normal[k]]]]

\* the sign of a * sqrt(m) + b * sqrt(n), for m, n >= 0
SignSumSqrt(a, m, b, n) ==
    LET p == Sgn(a) * a * a * m
        q == Sgn(b) * b * b * n
    IN Sgn(p + q)

\* a vertex test that takes every point to be on the good side
GoodSideAlways(V, normal) == TRUE

\* np.sum(V * normal) > 0 for a vertex normal (n1 + n2) / 2, n_i = (x, y) / sqrt(len2):
\* the sign of V.n1 / |n1| + V.n2 / |n2|
GoodSide(V, normal) ==
    SignSumSqrt(Dot(V, <<normal[1].x, normal[1].y>>), normal[2].len2,
                Dot(V, <<normal[2].x, normal[2].y>>), normal[1].len2) > 0

\* _calc_distance_and_gradients for one point P and one edge e: the signed distance
\* and its gradient.  a_tilde = AP.AB / AB_len; use_A: 0 > a_tilde; use_B: a_tilde >
\* AB_len.  An edge of zero length gives 0 / 0 (d = 0 resp. len2 = 0): nan.
EdgeDistance(P, e) ==
    LET AP == Sub(P, e.A)
        BP == Sub(P, e.B)
        use_A == e.len2 > 0 /\ 0 > Dot(AP, e.AB)
        use_B == e.len2 > 0 /\ Dot(AP, e.AB) > e.len2
        perp == Dot(AP, <<e.edge_unit_normal.x, e.edge_unit_normal.y>>)
        sign_use_A == IF GoodSide(AP, e.A_normal) THEN 1 ELSE -1
        sign_use_B == IF GoodSide(BP, e.B_normal) THEN 1 ELSE -1
    IN CASE use_B -> [distance |-> [s |-> sign_use_B, n |-> Norm2(BP), d |-> 1],
                      ddist |-> [x |-> sign_use_B * BP[1], y |-> sign_use_B * BP[2],
                                 len2 |-> Norm2(BP)]]
         [] use_A /\ ~use_B ->
                     [distance |-> [s |-> sign_use_A, n |-> Norm2(AP), d |-> 1],
                      ddist |-> [x |-> sign_use_A * AP[1], y |-> sign_use_A * AP[2],
                                 len2 |-> Norm2(AP)]]
         [] OTHER -> [distance |-> [s |-> Sgn(perp), n |-> perp * perp, d |-> e.len2],
                      ddist |-> e.edge_unit_normal]

\* _calc_distance_and_gradients: one row per point, one column per edge
calc_all(pts, edges) ==
    [i \in 1..Len(pts) |-> [k \in 1..Len(edges) |-> EdgeDistance(pts[i], edges[k])]]

IsNan(dist) == dist.d = 0

\* |p| < |q| for two distances, neither nan
AbsLess(p, q) == p.n * q.d < q.n * p.d

\* np.argmin(np.abs(distance)) over one row: the first nan if there is one, else
\* the first edge of minimum absolute distance
ArgMinAbs(row) ==
    LET nans == {k \in 1..Len(row) : IsNan(row[k].distance)}
        K == IF nans # {} THEN nans
             ELSE {k \in 1..Len(row) :
                     \A l \in 1..Len(row) : ~AbsLess(row[l].distance, row[k].distance)}
    IN CHOOSE k \in K : \A l \in K : k <= l

\* np.all(np.array([x, y]) == self._cache_input): "miss" for no cached input (None)
\* and for a differing one, "hit" when all compared elements are equal, where a
\* single cached or queried point is broadcast against the other side's points;
\* "incompatible" for two shapes that do not broadcast.
CacheCompare(pts, cached) ==
    IF ~cached.set THEN "miss"
    ELSE LET c == cached.pts
         IN IF Len(c) = Len(pts) THEN (IF c = pts THEN "hit" ELSE "miss")
            ELSE IF Len(pts) = 1
                 THEN (IF \A k \in 1..Len(c) : c[k] = pts[1] THEN "hit" ELSE "miss")
            ELSE IF Len(c) = 1
                 THEN (IF \A k \in 1..Len(pts) : pts[k] = c[1] THEN "hit" ELSE "miss")
            ELSE "incompatible"

\* PolygonBoundaryComp.calc_distance_and_gradients past the cache test: per point
\* the distance and gradient of the closest edge
PolygonCompute(c, pts) ==
    LET all == calc_all(pts, c.edges)
    IN [i \in 1..Len(pts) |-> all[i][ArgMinAbs(all[i])]]

\* PolygonBoundaryComp.__init__
PolygonBoundaryComp(xy_boundary, relaxation) ==
    LET bp == get_boundary_properties(xy_boundary, TRUE)
    IN IF ~bp.ok THEN [ok |-> FALSE]
       ELSE [ok |-> TRUE, xy_boundary |-> CloseRing(bp.xy_boundary), edges |-> bp.edges,
             relaxation |-> relaxation]

\* satisfy's pad=1.1, as the fraction PadNum / PadDen
PadNum == 11

PadDen == 10

\* sqrt(n / m) as a fraction, for n / m the square of a rational
RatSqrt(n, m) ==
    LET g == GCD(n, m)
    IN [n |-> ISqrt(n \div g), d |-> ISqrt(m \div g)]

\* x - dx * dist * pad and y - dy * dist * pad for a polygon distance [s, n, d] and
\* its gradient [x, y, len2]: dx * dist = x * s * sqrt(n / (d * len2)), which is
\* rational for an edge (n = c^2, d = len2) and for a vertex (n = len2, d = 1)
MovedPoint(P, dist, ddist) ==
    LET r == RatSqrt(dist.n, dist.d * ddist.len2)
        q == PadDen * r.d
    IN <<P[1] * q - PadNum * ddist.x * dist.s * r.n,
         P[2] * q - PadNum * ddist.y * dist.s * r.n, q>>

\* a satisfy whose mask selects every point
SatisfyMoveAll(pts, out) ==
    IF Len(out) # Len(pts)
    THEN [status |-> "IndexError", state |-> [i \in 1..Len(pts) |-> <<pts[i][1], pts[i][2], 1>>]]
    ELSE [status |-> "ok",
          state |-> [i \in 1..Len(pts) |->
                        MovedPoint(pts[i], out[i].distance, out[i].ddist)]]

\* PolygonBoundaryComp.satisfy, given what distances(x, y) and gradients(x, y)
\* returned (out: per point the distance and gradient): m = dist < 0; a mask whose
\* length is not that of x raises IndexError before anything is moved
SatisfyMove(pts, out) ==
    IF Len(out) # Len(pts)
    THEN [status |-> "IndexError", state |-> [i \in 1..Len(pts) |-> <<pts[i][1], pts[i][2], 1>>]]
    ELSE [status |-> "ok",
          state |-> [i \in 1..Len(pts) |->
                        IF out[i].distance.s < 0
                        THEN MovedPoint(pts[i], out[i].distance, out[i].ddist)
                        ELSE <<pts[i][1], pts[i][2], 1>>]]

(***************************************************************************)
(* CircleBoundaryComp                                                      *)
(***************************************************************************)
\* CircleBoundaryComp.distances for one point: radius - sqrt(r2), kept as [R, r2]
CircleDistance(c, P) == [R |-> c.radius, r2 |-> Norm2(Sub(P, c.center))]

\* CircleBoundaryComp.gradients for one point (the diagonal entry): dx = dy = -1,
\* replaced by -cos(theta), -sin(theta) where dist != radius
CircleGradient(c, P) ==
    LET dist == CircleDistance(c, P)
        not_center == dist.r2 # 0
    IN IF not_center
       THEN [x |-> -(P[1] - c.center[1]), y |-> -(P[2] - c.center[2]), len2 |-> dist.r2]
       ELSE [x |-> -1, y |-> -1, len2 |-> 1]

\* dist < 0 for a circle distance
CircleNegative(dist) == dist.r2 > dist.R * dist.R

\* the circle distance R - r as a polygon-style distance [s, n, d], for a point at
\* an integer distance r from the center
CircleAsSigned(dist) ==
    LET r == ISqrt(dist.r2)
    IN [s |-> Sgn(dist.R - r), n |-> (dist.R - r) * (dist.R - r), d |-> 1]

\* the satisfy CircleBoundaryComp inherits from PolygonBoundaryComp
CircleSatisfyOf(c, pts) ==
    SatisfyMove(pts, [i \in 1..Len(pts) |->
                        [distance |-> CircleAsSigned(CircleDistance(c, pts[i])),
                         ddist |-> CircleGradient(c, pts[i])]])

\* CircleBoundaryComp.__init__
CircleBoundaryComp(center, radius) == [ok |-> TRUE, center |-> center, radius |-> radius]

(***************************************************************************)
(* shapely geometries, for zones drawn on the unit lattice.                *)
(* A geometry is the set of the lattice cells it covers; cell <<i, j>> is  *)
(* the closed square [i, i+1] x [j, j+1].  A Polygon is a non-empty edge-  *)
(* connected set of cells, a MultiPolygon one with several edge-connected  *)
(* parts.  Areas are counted in units of 1e-3 and a cell has area 1e-3.    *)
(***************************************************************************)
\* the 1e-3 of `area > 1e-3`, in units of 1e-3
AreaThreshold == 1

CellArea == AreaThreshold

Rect(x0, y0, x1, y1) == {<<i, j>> : i \in x0..(x1 - 1), j \in y0..(y1 - 1)}

Area(S) == Cardinality(S) * CellArea

\* a.intersects(b): the closed regions share a point
Intersects(a, b) ==
    \E c \in a : \E e \in b : Abs(c[1] - e[1]) <= 1 /\ Abs(c[2] - e[2]) <= 1

\* a.contains(b): no point of b outside a, and the interiors share a point
Contains(a, b) == b # {} /\ b \subseteq a

SymmetricDifference(a, b) == (a \ b) \cup (b \ a)

EdgeNeighbours(c) ==
    {<<c[1] + 1, c[2]>>, <<c[1] - 1, c[2]>>, <<c[1], c[2] + 1>>, <<c[1], c[2] - 1>>}

\* the cells of S joined to `part` through edge neighbours
RECURSIVE Grow(_, _)
Grow(S, part) ==
    LET more == (UNION {EdgeNeighbours(c) : c \in part}) \cap S
    IN IF more \subseteq part THEN part ELSE Grow(S, part \cup more)

MinCell(S) == CHOOSE c \in S : \A e \in S : c[2] < e[2] \/ (c[2] = e[2] /\ c[1] <= e[1])

\* the edge-connected parts of S (a MultiPolygon's geoms), by lowest-leftmost cell
RECURSIVE Parts(_)
Parts(S) ==
    IF S = {} THEN <<>>
    ELSE LET part == Grow(S, {MinCell(S)})
         IN <<part>> \o Parts(S \ part)

\* The class of an overlay result.  An empty result is a Polygon (POLYGON EMPTY) or
\* not (GEOMETRYCOLLECTION EMPTY) depending on the GEOS the build links.
GeomType(S, build) ==
    IF S = {} THEN (IF build.empty_is_polygon THEN "Polygon" ELSE "GeometryCollection")
    ELSE IF Len(Parts(S)) = 1 THEN "Polygon" ELSE "MultiPolygon"

\* the holes of a polygon: the parts of its complement that its cells enclose
Holes(S) ==
    LET xs == {c[1] : c \in S}
        ys == {c[2] : c \in S}
        x0 == CHOOSE a \in xs : \A b \in xs : a <= b
        x1 == CHOOSE a \in xs : \A b \in xs : a >= b
        y0 == CHOOSE a \in ys : \A b \in ys : a <= b
        y1 == CHOOSE a \in ys : \A b \in ys : a >= b
        rest == Rect(x0 - 1, y0 - 1, x1 + 2, y1 + 2) \ S
        outside == Grow(rest, {<<x0 - 1, y0 - 1>>})
    IN Parts(rest \ outside)

\* the region inside a polygon's exterior ring
Filled(S) == IF S = {} THEN {} ELSE S \cup UNION Range(Holes(S))

\* the unit boundary edges of a hole-free polygon F, directed counter-clockwise
BoundaryEdges(F) ==
    {<<c, <<c[1] + 1, c[2]>>>> : c \in {c \in F : <<c[1], c[2] - 1>> \notin F}}
    \cup {<<<<c[1] + 1, c[2]>>, <<c[1] + 1, c[2] + 1>>>> : c \in {c \in F : <<c[1] + 1, c[2]>> \notin F}}
    \cup {<<<<c[1] + 1, c[2] + 1>>, <<c[1], c[2] + 1>>>> : c \in {c \in F : <<c[1], c[2] + 1>> \notin F}}
    \cup {<<<<c[1], c[2] + 1>>, c>> : c \in {c \in F : <<c[1] - 1, c[2]>> \notin F}}

RECURSIVE WalkEdges(_, _, _)
WalkEdges(E, first, e) ==
    LET nxt == CHOOSE f \in E : f[1] = e[2]
    IN IF nxt = first THEN <<e>> ELSE <<e>> \o WalkEdges(E, first, nxt)

\* the start vertices of the edges es[k], es[k+1], .. at which the walk turns
RECURSIVE Corners(_, _)
Corners(es, k) ==
    IF k > Len(es) THEN <<>>
    ELSE LET before == es[IF k = 1 THEN Len(es) ELSE k - 1]
         IN (IF Sub(es[k][2], es[k][1]) # Sub(before[2], before[1]) THEN <<es[k][1]>>
             ELSE <<>>) \o Corners(es, k + 1)

\* the ring around a hole-free polygon F: its corner vertices, counter-clockwise,
\* the closing vertex not repeated (ring.xy[:-1])
RingOf(F) ==
    LET E == BoundaryEdges(F)
        c0 == MinCell(F)
        first == <<c0, <<c0[1] + 1, c0[2]>>>>
    IN Corners(WalkEdges(E, first, first), 1)

(***************************************************************************)
(* MultiPolygonBoundaryComp: merging the zones                             *)
(***************************************************************************)
\* MultiPolygonBoundaryComp.__init__: types_bool
TypesBool(tag) == IF tag \in {"i", "include"} THEN 1 ELSE 0

BigEnough(S) == Area(S) > AreaThreshold

\* _calc_resulting_polygons, the loop over the domain for an inclusion zone: the
\* state after d = domain[j], .., domain[-1], from b, temp and the warnings so far
RECURSIVE InclusionLoop(_, _, _, _, _)
InclusionLoop(domain, j, b, temp, warns) ==
    IF j > Len(domain) THEN [domain |-> temp, warnings |-> warns]
    ELSE LET d == domain[j]
             hit == Intersects(d, b)
             inside == ~hit /\ Contains(d, b)
             around == ~hit /\ ~inside /\ Contains(b, d)
             apart == ~hit /\ ~inside /\ ~around
             b1 == IF hit THEN d \cup b ELSE IF around THEN d ELSE b
             w1 == IF inside
                   THEN Append(warns, "Boundary is fully contained preceding polygon and will be ignored")
                   ELSE IF around
                   THEN Append(warns, "Boundary is fully containing preceding polygon and will override it")
                   ELSE warns
             t1 == IF apart /\ BigEnough(b) THEN Append(temp, d) ELSE temp
             t2 == IF j = Len(domain) /\ BigEnough(b1) THEN Append(t1, b1) ELSE t1
         IN InclusionLoop(domain, j + 1, b1, t2, w1)

\* the same loop for an exclusion zone b
RECURSIVE ExclusionLoop(_, _, _, _, _, _)
ExclusionLoop(domain, j, b, temp, warns, build) ==
    IF j > Len(domain) THEN [domain |-> temp, warnings |-> warns]
    ELSE LET d == domain[j]
             hit == Intersects(d, b)
             consumed == ~hit /\ Contains(b, d)
             nonoverlap == SymmetricDifference(d, b) \ b
             type == GeomType(nonoverlap, build)
             d1 == IF Contains(d, b) THEN Filled(d) \ Filled(b) ELSE d
             t1 == IF hit
                   THEN (IF type = "Polygon" THEN Append(temp, nonoverlap)
                         ELSE IF type = "MultiPolygon"
                         THEN temp \o SelectSeq(Parts(nonoverlap), BigEnough)
                         ELSE temp)
                   ELSE IF consumed THEN temp
                   ELSE IF BigEnough(d1) THEN Append(temp, d1) ELSE temp
             w1 == IF consumed
                   THEN Append(warns, "Exclusion boundary fully consumes preceding polygon")
                   ELSE warns
         IN ExclusionLoop(domain, j + 1, b, t1, w1, build)

\* a merge step that takes the first zone into the domain whatever its type
MergeStepKeepFirst(acc, b, type_bool, build) ==
    IF Len(acc.domain) = 0
    THEN [domain |-> <<b>>, warnings |-> acc.warnings]
    ELSE IF type_bool = 1
         THEN InclusionLoop(acc.domain, 1, b, <<>>, acc.warnings)
         ELSE ExclusionLoop(acc.domain, 1, b, <<>>, acc.warnings, build)

\* _calc_resulting_polygons, one iteration of the loop over the zones: zone b of
\* type type_bool against the domain (and the warnings) accumulated so far
MergeStep(acc, b, type_bool, build) ==
    IF Len(acc.domain) = 0
    THEN IF type_bool = 1
         THEN [domain |-> <<b>>, warnings |-> acc.warnings]
         ELSE [domain |-> <<>>,
               warnings |-> Append(acc.warnings,
                     "First boundary should be an inclusion zone or it will be ignored")]
    ELSE IF type_bool = 1
         THEN InclusionLoop(acc.domain, 1, b, <<>>, acc.warnings)
         ELSE ExclusionLoop(acc.domain, 1, b, <<>>, acc.warnings, build)

\* _calc_resulting_polygons: the domain (and the warnings emitted) for the zones
RECURSIVE calc_resulting_polygons(_, _, _)
calc_resulting_polygons(boundary_polygons, types_bool, build) ==
    LET n == Len(boundary_polygons)
    IN IF n = 0 THEN [domain |-> <<>>, warnings |-> <<>>]
       ELSE MergeStep(calc_resulting_polygons(SubSeq(boundary_polygons, 1, n - 1),
                                              SubSeq(types_bool, 1, n - 1), build),
                      boundary_polygons[n], types_bool[n], build)

\* interior rings tagged as inclusion zones
RECURSIVE InteriorBoundsIncluded(_)
InteriorBoundsIncluded(holes) ==
    IF holes = <<>> THEN <<>>
    ELSE <<[xy |-> Reverse(RingOf(Head(holes))), incl_excl |-> 1]>>
         \o InteriorBoundsIncluded(Tail(holes))

RECURSIVE InteriorBounds(_)
InteriorBounds(holes) ==
    IF holes = <<>> THEN <<>>
    ELSE <<[xy |-> Reverse(RingOf(Head(holes))), incl_excl |-> 0]>>
         \o InteriorBounds(Tail(holes))

\* _poly_to_bound for one polygon: its exterior ring tagged 1, then its interior
\* rings tagged 0, each without its closing vertex; here with the exterior ring
\* counter-clockwise and the interior rings clockwise.  The exterior of an empty
\* polygon is a ring without vertices.
PolygonBounds(bound) ==
    IF bound = {} THEN <<[xy |-> <<>>, incl_excl |-> 1]>>
    ELSE LET holes == Holes(bound)
         IN <<[xy |-> RingOf(bound \cup UNION Range(holes)), incl_excl |-> 1]>>
            \o InteriorBounds(holes)

RECURSIVE AllBounds(_)
AllBounds(polygons) ==
    IF polygons = <<>> THEN <<>>
    ELSE PolygonBounds(Head(polygons)) \o AllBounds(Tail(polygons))

\* _poly_to_bound: a MultiPolygon among the polygons has no exterior (AttributeError)
poly_to_bound(polygons) ==
    IF \E k \in 1..Len(polygons) : polygons[k] # {} /\ Len(Parts(polygons[k])) > 1
    THEN [status |-> "AttributeError", boundaries |-> <<>>]
    ELSE [status |-> "ok", boundaries |-> AllBounds(polygons)]

\* the rings in the winding the geometry library holds them in: exterior rings
\* counter-clockwise and interior rings clockwise, or the other way round
Wound(boundaries, shell_ccw) ==
    IF shell_ccw THEN boundaries
    ELSE [k \in 1..Len(boundaries) |->
             [xy |-> Reverse(boundaries[k].xy), incl_excl |-> boundaries[k].incl_excl]]

RECURSIVE ConcatEdges(_)
ConcatEdges(boundaries) ==
    IF boundaries = <<>> THEN <<>>
    ELSE get_boundary_properties(Head(boundaries).xy, Head(boundaries).incl_excl = 1).edges
         \o ConcatEdges(Tail(boundaries))

\* _setup_boundaries past _calc_resulting_polygons, given what _poly_to_bound
\* returned (or raised): the rings and their concatenated edge properties.
\* get_boundary_properties raises IndexError on a ring without vertices.
setup_boundaries(bounds, shell_ccw) ==
    IF bounds.status # "ok" THEN [status |-> bounds.status]
    ELSE IF \E k \in 1..Len(bounds.boundaries) : bounds.boundaries[k].xy = <<>>
    THEN [status |-> "IndexError"]
    ELSE LET boundaries == Wound(bounds.boundaries, shell_ccw)
         IN [status |-> "ok", boundaries |-> boundaries,
             boundary_properties_list_all |-> ConcatEdges(boundaries)]

(***************************************************************************)
(* MultiPolygonBoundaryComp: distances and gradients                       *)
(***************************************************************************)
\* relaxation=False, and relaxation=(penalty constant, number of first iterations)
NoRelaxation == [active |-> FALSE]

Relaxation(penalty, iterations) ==
    [active |-> TRUE, penalty |-> penalty, iterations |-> iterations]

\* MultiPolygonBoundaryComp.__init__ for the zones xy_multi_boundary, each a record
\* [poly, type]; build tells what the linked geometry library does where that
\* depends on the build
MultiPolygonBoundaryComp(nwt, xy_multi_boundary, relaxation, build) ==
    LET first == get_boundary_properties(RingOf(xy_multi_boundary[1].poly), TRUE)
        bounds_poly == [k \in 1..Len(xy_multi_boundary) |-> xy_multi_boundary[k].poly]
        types_bool == [k \in 1..Len(xy_multi_boundary) |-> TypesBool(xy_multi_boundary[k].type)]
        res == calc_resulting_polygons(bounds_poly, types_bool, build)
        sb == setup_boundaries(poly_to_bound(res.domain), build.shell_ccw)
    IN IF sb.status # "ok" THEN [status |-> sb.status, warnings |-> res.warnings]
       ELSE [status |-> "ok", n_wt |-> nwt,
             xy_boundary |-> CloseRing(first.xy_boundary),
             boundary_properties |-> first.edges,
             bounds_poly |-> bounds_poly, types_bool |-> types_bool,
             res_poly |-> res.domain, warnings |-> res.warnings,
             boundaries |-> sb.boundaries,
             boundary_properties_list_all |-> sb.boundary_properties_list_all,
             relaxation |-> relaxation, method |-> "nearest", build |-> build]

\* _calc_distance_and_gradients(x, y, self.boundary_properties_list_all): an empty
\* list is falsy, and then the properties of the first zone's ring are used
MultiCompute(c, pts) ==
    calc_all(pts, IF c.boundary_properties_list_all = <<>> THEN c.boundary_properties
                  ELSE c.boundary_properties_list_all)

\* calc_relaxation
calc_relaxation(c, grad_evals) ==
    LET iteration_no == grad_evals + 1
        r == c.relaxation.penalty * (c.relaxation.iterations - iteration_no)
    IN IF r > 0 THEN r ELSE 0

\* Dist_ij[np.arange(x.size), np.argmin(np.abs(Dist_ij), axis=1)] for the rows of
\* Dist_ij and size = x.size: the two index arrays are broadcast against each other
MultiNearest(rows, size) ==
    LET argmin == [k \in 1..Len(rows) |-> ArgMinAbs(rows[k])]
    IN IF size = Len(rows)
       THEN [status |-> "ok", out |-> [i \in 1..size |-> rows[i][argmin[i]]]]
       ELSE IF size = 1
       THEN [status |-> "ok", out |-> [k \in 1..Len(rows) |-> rows[1][argmin[k]]]]
       ELSE [status |-> "IndexError", out |-> <<>>]

(***************************************************************************)
(* calc_distance_and_gradients with the one-slot cache.  The result is the *)
(* set of outcomes the call can have: comparing arrays whose shapes do not *)
(* broadcast is False in one numpy and a ValueError in another.            *)
(***************************************************************************)
CacheOutcomes(cmp, reuse_allowed, ci, co, pts, computed) ==
    LET fresh == [status |-> "ok", cache_input |-> [set |-> TRUE, pts |-> pts],
                  cache_output |-> computed, out |-> computed]
        reuse == [status |-> "ok", cache_input |-> ci, cache_output |-> co, out |-> co]
        raise == [status |-> "ValueError", cache_input |-> ci, cache_output |-> co,
                  out |-> <<>>]
    IN CASE cmp = "hit" -> IF reuse_allowed THEN {reuse} ELSE {fresh}
         [] cmp = "miss" -> {fresh}
         [] OTHER -> {fresh, raise}

\* PolygonBoundaryComp.calc_distance_and_gradients
PolygonCalc(c, pts, ci, co) ==
    CacheOutcomes(CacheCompare(pts, ci), TRUE, ci, co, pts, PolygonCompute(c, pts))

\* MultiPolygonBoundaryComp.calc_distance_and_gradients
MultiCalc(c, pts, ci, co) ==
    CacheOutcomes(CacheCompare(pts, ci), ~c.relaxation.active, ci, co, pts,
                  MultiCompute(c, pts))

Unmoved(pts) == [i \in 1..Len(pts) |-> <<pts[i][1], pts[i][2], 1>>]

\* PolygonBoundaryComp.distances: the outcomes of one call
PolygonDistancesOutcomes(c, pts, ci, co) ==
    {[cache_input |-> r.cache_input, cache_output |-> r.cache_output,
      ret |-> [status |-> r.status,
               value |-> [i \in 1..Len(r.out) |-> r.out[i].distance]]]
     : r \in PolygonCalc(c, pts, ci, co)}

\* PolygonBoundaryComp.gradients: the diagonals of the x and y Jacobians
PolygonGradientsOutcomes(c, pts, ci, co) ==
    {[cache_input |-> r.cache_input, cache_output |-> r.cache_output,
      ret |-> [status |-> r.status,
               value |-> [i \in 1..Len(r.out) |-> r.out[i].ddist]]]
     : r \in PolygonCalc(c, pts, ci, co)}

\* MultiPolygonBoundaryComp.distances
MultiDistancesOutcomes(c, pts, ci, co, grad_evals) ==
    {LET near == MultiNearest(r.out, Len(pts))
         offset == IF c.relaxation.active THEN calc_relaxation(c, grad_evals) ELSE 0
     IN [cache_input |-> r.cache_input, cache_output |-> r.cache_output,
         ret |-> IF r.status # "ok" THEN [status |-> r.status, value |-> <<>>]
                 ELSE [status |-> near.status,
                       value |-> [i \in 1..Len(near.out) |->
                                     [distance |-> near.out[i].distance,
                                      offset |-> offset]]]]
     : r \in MultiCalc(c, pts, ci, co)}

\* MultiPolygonBoundaryComp.gradients: the diagonals of the x and y Jacobians and,
\* with relaxation, a third component np.ones(n_wt) * relaxation[1]
MultiGradientsOutcomes(c, pts, ci, co) ==
    {LET near == MultiNearest(r.out, Len(pts))
     IN [cache_input |-> r.cache_input, cache_output |-> r.cache_output,
         ret |-> IF r.status # "ok" THEN [status |-> r.status, value |-> <<>>, dt |-> <<>>]
                 ELSE [status |-> near.status,
                       value |-> [i \in 1..Len(near.out) |-> near.out[i].ddist],
                       dt |-> IF c.relaxation.active /\ near.status = "ok"
                              THEN [i \in 1..c.n_wt |-> c.relaxation.iterations]
                              ELSE <<>>]]
     : r \in MultiCalc(c, pts, ci, co)}

\* PolygonBoundaryComp.satisfy on a PolygonBoundaryComp: distances(x, y), then
\* gradients(x, y), then the move
PolygonSatisfyOutcomes(c, pts, ci, co) ==
    UNION {IF r1.ret.status # "ok"
           THEN {[cache_input |-> r1.cache_input, cache_output |-> r1.cache_output,
                  ret |-> [status |-> r1.ret.status, state |-> Unmoved(pts)]]}
           ELSE {[cache_input |-> r2.cache_input, cache_output |-> r2.cache_output,
                  ret |-> IF r2.ret.status # "ok"
                          THEN [status |-> r2.ret.status, state |-> Unmoved(pts)]
                          ELSE IF Len(r1.ret.value) # Len(pts)
                          THEN SatisfyMove(pts, r1.ret.value)
                          ELSE SatisfyMove(pts, [i \in 1..Len(pts) |->
                                          [distance |-> r1.ret.value[i],
                                           ddist |-> r2.ret.value[i]]])]
                 : r2 \in PolygonGradientsOutcomes(c, pts, r1.cache_input, r1.cache_output)}
           : r1 \in PolygonDistancesOutcomes(c, pts, ci, co)}

\* the satisfy MultiPolygonBoundaryComp inherits: with relaxation gradients returns
\* three components and `dx, dy = map(np.diag, ..)` raises ValueError
MultiSatisfyOutcomes(c, pts, ci, co, grad_evals) ==
    UNION {IF r1.ret.status # "ok"
           THEN {[cache_input |-> r1.cache_input, cache_output |-> r1.cache_output,
                  ret |-> [status |-> r1.ret.status, state |-> Unmoved(pts)]]}
           ELSE {[cache_input |-> r2.cache_input, cache_output |-> r2.cache_output,
                  ret |-> IF r2.ret.status # "ok"
                          THEN [status |-> r2.ret.status, state |-> Unmoved(pts)]
                          ELSE IF c.relaxation.active
                          THEN [status |-> "ValueError", state |-> Unmoved(pts)]
                          ELSE IF Len(r1.ret.value) # Len(pts)
                          THEN SatisfyMove(pts, r1.ret.value)
                          ELSE SatisfyMove(pts, [i \in 1..Len(pts) |->
                                          [distance |-> r1.ret.value[i].distance,
                                           ddist |-> r2.ret.value[i]]])]
                 : r2 \in MultiGradientsOutcomes(c, pts, r1.cache_input, r1.cache_output)}
           : r1 \in MultiDistancesOutcomes(c, pts, ci, co, grad_evals)}

(***************************************************************************)
(* Inputs                                                                  *)
(***************************************************************************)
\* the most points a query made up of the cache points has
MaxPts == 2

\* the most gradient evaluations of the cost component
MaxGradEval == 2

\* problem.n_wt, the number of turbines
n_wt == MaxPts

SquareRing == << <<0, 0>>, <<10, 0>>, <<10, 10>>, <<0, 10>> >>

TriangleRing == << <<0, 0>>, <<8, 0>>, <<0, 6>> >>

LRing == << <<0, 0>>, <<4, 0>>, <<4, 2>>, <<2, 2>>, <<2, 4>>, <<0, 4>> >>

ConvexInputs ==
    {[boundary_type |-> "convex_hull", xy |-> SquareRing],
     [boundary_type |-> "convex_hull",
      xy |-> << <<0, 6>>, <<2, 2>>, <<8, 0>>, <<4, 0>>, <<0, 0>> >>],
     [boundary_type |-> "rectangle", xy |-> << <<0, 0>>, <<8, 2>>, <<4, 6>> >>],
     [boundary_type |-> "square", xy |-> << <<0, 0>>, <<8, 6>> >>]}

ConvexQueries ==
    {<< <<5, 5>> >>, << <<15, 5>> >>, << <<5, 5>>, <<15, 5>> >>, << <<8, 3>>, <<2, 2>> >>,
     << <<4, 3>>, <<-3, 7>> >>, << <<0, 0>>, <<4, 0>>, <<9, -2>> >>}

ConvexStates ==
    {<< <<2, 2>>, <<-3, 3>> >>, << <<12, 5>>, <<1, 1>> >>, << <<18, 0>> >>,
     << <<2, 2>>, <<1, 1>> >>}

PolygonInputs == {SquareRing, TriangleRing, LRing, Reverse(LRing)}

PolygonPoints ==
    {<<0, 0>>, <<4, 2>>, <<2, 2>>, <<0, 6>>, <<1, 1>>, <<3, 1>>, <<3, 3>>, <<1, 3>>,
     <<5, 3>>, <<-1, -1>>, <<5, 1>>, <<2, 5>>, <<9, 1>>, <<2, 0>>}

CachePoints == {<<3, 3>>, <<1, 1>>}

RECURSIVE SeqsOfLen(_, _)
SeqsOfLen(S, n) ==
    IF n = 0 THEN {<<>>} ELSE {Append(q, p) : q \in SeqsOfLen(S, n - 1), p \in S}

\* the position arrays of the calls on a component with a cache
Queries ==
    {<<p>> : p \in PolygonPoints} \cup UNION {SeqsOfLen(CachePoints, n) : n \in 2..MaxPts}

CircleInputs ==
    {[center |-> <<0, 0>>, radius |-> 10], [center |-> <<0, 0>>, radius |-> 5],
     [center |-> <<3, 4>>, radius |-> 5]}

\* the positions asked of a circle, relative to its center
CircleOffsets == {<<0, 0>>, <<20, 0>>, <<3, 4>>, <<6, 8>>, <<0, -15>>, <<-4, 3>>}

CircleQueries(c) ==
    LET at(o) == <<c.center[1] + o[1], c.center[2] + o[2]>>
    IN {<<at(o)>> : o \in CircleOffsets}
       \cup {<<at(o), at(<<3, 4>>)>> : o \in {<<0, 0>>, <<20, 0>>}}

Builds == [empty_is_polygon : BOOLEAN, shell_ccw : BOOLEAN]

\* the zone lists of the multi-polygon components that are queried
MultiInputs ==
    {<<[poly |-> Rect(0, 0, 4, 4), type |-> "i"], [poly |-> Rect(1, 1, 3, 3), type |-> "e"]>>,
     <<[poly |-> Rect(0, 0, 4, 4), type |-> "i"], [poly |-> Rect(6, 0, 8, 2), type |-> "i"]>>}

Relaxations == {NoRelaxation, Relaxation(2, 3)}

(***************************************************************************)
(* The component after construction, and the calls made on it              *)
(***************************************************************************)
IsConvex == boundary_type \in {"convex_hull", "rectangle", "square"}

Init ==
    /\ \/ \E in \in ConvexInputs :
            /\ boundary_type = in.boundary_type
            /\ comp = ConvexBoundaryComp(in.boundary_type, in.xy)
       \/ \E xy \in PolygonInputs, relaxation \in Relaxations :
            /\ boundary_type = "polygon"
            /\ comp = PolygonBoundaryComp(xy, relaxation)
       \/ \E in \in MultiInputs, relaxation \in Relaxations, build \in Builds :
            /\ boundary_type = "multi_polygon"
            /\ comp = MultiPolygonBoundaryComp(n_wt, in, relaxation, build)
       \/ \E in \in CircleInputs :
            /\ boundary_type = "circle"
            /\ comp = CircleBoundaryComp(in.center, in.radius)
    /\ cache_input = [set |-> FALSE, pts |-> <<>>]
    /\ cache_output = <<>>
    /\ call = [op |-> "__init__", pts |-> <<>>]
    /\ ret = [status |-> "ok"]
    /\ n_grad_eval = 0

Called(op, pts) == call' = [op |-> op, pts |-> pts]

\* ConvexBoundaryComp.distances
ConvexDistances ==
    /\ IsConvex
    /\ \E pts \in ConvexQueries :
        /\ Called("distances", pts)
        /\ ret' = [status |-> "ok", value |-> ConvexDistancesOf(comp, pts)]
    /\ UNCHANGED <<boundary_type, comp, cache_input, cache_output, n_grad_eval>>

\* ConvexBoundaryComp.gradients
ConvexGradients ==
    /\ IsConvex
    /\ \E pts \in ConvexQueries :
        /\ Called("gradients", pts)
        /\ ret' = [status |-> "ok", value |-> ConvexGradientsOf(comp)]
    /\ UNCHANGED <<boundary_type, comp, cache_input, cache_output, n_grad_eval>>

\* ConvexBoundaryComp.satisfy
ConvexSatisfy ==
    /\ IsConvex
    /\ \E pts \in ConvexStates :
        /\ Called("satisfy", pts)
        /\ \E move \in {ConvexMoves(comp, pts)}, inplace \in BOOLEAN :
              ret' = ConvexSatisfyOf(pts, move, inplace)
    /\ UNCHANGED <<boundary_type, comp, cache_input, cache_output, n_grad_eval>>

\* PolygonBoundaryComp.distances
PolygonDistances ==
    /\ boundary_type = "polygon"
    /\ \E pts \in Queries :
        /\ Called("distances", pts)
        /\ \E r \in PolygonDistancesOutcomes(comp, pts, cache_input, cache_output) :
                  /\ cache_input' = r.cache_input
                  /\ cache_output' = r.cache_output
                  /\ ret' = r.ret
    /\ UNCHANGED <<boundary_type, comp, n_grad_eval>>

\* PolygonBoundaryComp.gradients
PolygonGradients ==
    /\ boundary_type = "polygon"
    /\ \E pts \in Queries :
        /\ Called("gradients", pts)
        /\ \E r \in PolygonGradientsOutcomes(comp, pts, cache_input, cache_output) :
                  /\ cache_input' = r.cache_input
                  /\ cache_output' = r.cache_output
                  /\ ret' = r.ret
    /\ UNCHANGED <<boundary_type, comp, n_grad_eval>>

\* PolygonBoundaryComp.satisfy
PolygonSatisfy ==
    /\ boundary_type = "polygon"
    /\ \E pts \in Queries :
        /\ Called("satisfy", pts)
        /\ \E r \in PolygonSatisfyOutcomes(comp, pts, cache_input, cache_output) :
                  /\ cache_input' = r.cache_input
                  /\ cache_output' = r.cache_output
                  /\ ret' = r.ret
    /\ UNCHANGED <<boundary_type, comp, n_grad_eval>>

\* MultiPolygonBoundaryComp.distances
MultiDistances ==
    /\ boundary_type = "multi_polygon"
    /\ \E pts \in Queries :
        /\ Called("distances", pts)
        /\ \E r \in MultiDistancesOutcomes(comp, pts, cache_input, cache_output, n_grad_eval) :
                  /\ cache_input' = r.cache_input
                  /\ cache_output' = r.cache_output
                  /\ ret' = r.ret
    /\ UNCHANGED <<boundary_type, comp, n_grad_eval>>

\* MultiPolygonBoundaryComp.gradients
MultiGradients ==
    /\ boundary_type = "multi_polygon"
    /\ \E pts \in Queries :
        /\ Called("gradients", pts)
        /\ \E r \in MultiGradientsOutcomes(comp, pts, cache_input, cache_output) :
                  /\ cache_input' = r.cache_input
                  /\ cache_output' = r.cache_output
                  /\ ret' = r.ret
    /\ UNCHANGED <<boundary_type, comp, n_grad_eval>>

\* the satisfy of a MultiPolygonBoundaryComp
MultiSatisfy ==
    /\ boundary_type = "multi_polygon"
    /\ \E pts \in Queries :
        /\ Called("satisfy", pts)
        /\ \E r \in MultiSatisfyOutcomes(comp, pts, cache_input, cache_output, n_grad_eval) :
                  /\ cache_input' = r.cache_input
                  /\ cache_output' = r.cache_output
                  /\ ret' = r.ret
    /\ UNCHANGED <<boundary_type, comp, n_grad_eval>>

\* CircleBoundaryComp.distances
CircleDistances ==
    /\ boundary_type = "circle"
    /\ \E pts \in CircleQueries(comp) :
        /\ Called("distances", pts)
        /\ ret' = [status |-> "ok",
                       value |-> [i \in 1..Len(pts) |-> CircleDistance(comp, pts[i])]]
    /\ UNCHANGED <<boundary_type, comp, cache_input, cache_output, n_grad_eval>>

\* CircleBoundaryComp.gradients
CircleGradients ==
    /\ boundary_type = "circle"
    /\ \E pts \in CircleQueries(comp) :
        /\ Called("gradients", pts)
        /\ ret' = [status |-> "ok",
                       value |-> [i \in 1..Len(pts) |-> CircleGradient(comp, pts[i])]]
    /\ UNCHANGED <<boundary_type, comp, cache_input, cache_output, n_grad_eval>>

\* the satisfy of a CircleBoundaryComp
CircleSatisfy ==
    /\ boundary_type = "circle"
    /\ \E pts \in CircleQueries(comp) :
        /\ Called("satisfy", pts)
        /\ ret' = CircleSatisfyOf(comp, pts)
    /\ UNCHANGED <<boundary_type, comp, cache_input, cache_output, n_grad_eval>>

\* the cost component evaluates its gradient once more; the counter is read by
\* calc_relaxation only, so it is followed for components with relaxation
CostGradEval ==
    /\ boundary_type = "multi_polygon"
    /\ comp.relaxation.active
    /\ n_grad_eval < MaxGradEval
    /\ n_grad_eval' = n_grad_eval + 1
    /\ UNCHANGED <<boundary_type, comp, cache_input, cache_output, call, ret>>

\* the distances and gradients calls of an optimisation
Next ==
    \/ ConvexDistances
    \/ ConvexGradients
    \/ PolygonDistances
    \/ PolygonGradients
    \/ MultiDistances
    \/ MultiGradients
    \/ CircleDistances
    \/ CircleGradients
    \/ CostGradEval

Spec == Init /\ [][Next]_vars

\* the satisfy calls of every kind of component, after any distances calls
NextSatisfy ==
    \/ ConvexSatisfy
    \/ PolygonSatisfy
    \/ MultiSatisfy
    \/ CircleSatisfy
    \/ PolygonDistances
    \/ MultiDistances

SpecSatisfy == Init /\ [][NextSatisfy]_vars

(***************************************************************************)
(* The construction of a MultiPolygonBoundaryComp, zone by zone: comp      *)
(* holds the zones the loop of _calc_resulting_polygons has processed      *)
(* (bounds_poly, types_bool), its domain and the warnings emitted so far.  *)
(***************************************************************************)
\* the most zones of a zone list
MaxZones == 3

\* a zone drawn as a block with a corner bitten off
LBlock == Rect(0, 1, 4, 2) \cup Rect(1, 0, 4, 1)

ZoneInputs ==
    {[poly |-> Rect(0, 0, 4, 4), type |-> "i"],
     [poly |-> Rect(1, 1, 3, 3), type |-> "i"], [poly |-> Rect(1, 1, 3, 3), type |-> "e"],
     [poly |-> Rect(6, 0, 8, 2), type |-> "i"], [poly |-> Rect(6, 0, 8, 2), type |-> "e"],
     [poly |-> Rect(6, 6, 7, 7), type |-> "include"],
     [poly |-> Rect(3, 0, 7, 1), type |-> "i"],
     [poly |-> Rect(-2, 4, 0, 6), type |-> "i"],
     [poly |-> Rect(-1, -1, 5, 5), type |-> "i"], [poly |-> Rect(-1, -1, 5, 5), type |-> "e"],
     [poly |-> Rect(1, 0, 3, 4), type |-> "exclude"],
     [poly |-> LBlock, type |-> "e"]}

InitMerge ==
    /\ boundary_type = "multi_polygon"
    /\ \E empty_is_polygon \in BOOLEAN :
          comp = [bounds_poly |-> <<>>, types_bool |-> <<>>, domain |-> <<>>,
                  warnings |-> <<>>, empty_is_polygon |-> empty_is_polygon,
                  boundaries |-> <<>>, boundary_properties_list_all |-> <<>>]
    /\ cache_input = [set |-> FALSE, pts |-> <<>>]
    /\ cache_output = <<>>
    /\ call = [op |-> "__init__", pts |-> <<>>]
    /\ ret = [status |-> "running"]
    /\ n_grad_eval = 0

\* one iteration of the loop over the zones in _calc_resulting_polygons, on the next
\* zone of the list
MergeZone ==
    /\ ret.status = "running"
    /\ Len(comp.bounds_poly) < MaxZones
    /\ \E zone \in ZoneInputs :
          LET acc == MergeStep([domain |-> comp.domain, warnings |-> comp.warnings],
                               zone.poly, TypesBool(zone.type),
                               [empty_is_polygon |-> comp.empty_is_polygon])
          IN comp' = [comp EXCEPT !.bounds_poly = Append(@, zone.poly),
                                  !.types_bool = Append(@, TypesBool(zone.type)),
                                  !.domain = acc.domain,
                                  !.warnings = acc.warnings]
    /\ UNCHANGED <<boundary_type, cache_input, cache_output, call, ret, n_grad_eval>>

\* the loop has ended: _setup_boundaries goes on with _poly_to_bound and
\* get_boundary_properties, and __init__ returns or raises
SetupBoundaries ==
    /\ ret.status = "running"
    /\ Len(comp.bounds_poly) >= 1
    /\ \E bounds \in {poly_to_bound(comp.domain)}, shell_ccw \in BOOLEAN :
          \E sb \in {setup_boundaries(bounds, shell_ccw)} :
             /\ ret' = [status |-> sb.status]
             /\ comp' = IF sb.status # "ok" THEN comp
                        ELSE [comp EXCEPT
                                !.boundaries = sb.boundaries,
                                !.boundary_properties_list_all =
                                    sb.boundary_properties_list_all]
    /\ UNCHANGED <<boundary_type, cache_input, cache_output, call, n_grad_eval>>

NextMerge ==
    \/ MergeZone
    \/ SetupBoundaries

SpecMerge == InitMerge /\ [][NextMerge]_vars

(***************************************************************************)
(* The constraint object and its lazily built component: comp holds the    *)
(* boundary given to XYBoundaryConstraint, whether the attribute           *)
(* boundary_comp exists, the component and the n_wt it was built with.     *)
(***************************************************************************)
\* the point arrays given as boundary: rings in both windings, open and closed,
\* rings with a repeated vertex, collinear and identical points, two corners
RingInputs ==
    {SquareRing, TriangleRing, LRing, Reverse(LRing), CloseRing(TriangleRing),
     Reverse(CloseRing(SquareRing)),
     << <<0, 0>>, <<4, 0>>, <<4, 0>>, <<4, 4>>, <<0, 4>> >>,
     << <<0, 0>>, <<4, 0>>, <<4, 4>>, <<4, 4>>, <<0, 4>>, <<0, 0>> >>,
     << <<0, 0>>, <<2, 0>>, <<4, 0>> >>,
     << <<0, 0>>, <<0, 4>> >>,
     << <<2, 2>>, <<2, 2>>, <<2, 2>> >>,
     << <<0, 0>>, <<8, 6>> >>}

BoundaryTypes == {"convex_hull", "rectangle", "square", "polygon"}

\* scipy's ConvexHull raises QhullError on points that span no area
Collinear(xy) ==
    \A p, q, r \in Range(xy) : Cross2(Sub(q, p), Sub(r, p)) = 0

\* the constructor call of get_comp: the component, or the exception raised
BuildComp(type, xy) ==
    IF type = "polygon"
    THEN LET c == PolygonBoundaryComp(xy, NoRelaxation)
         IN IF c.ok THEN [status |-> "ok", boundary_comp |-> c]
            ELSE [status |-> "AssertionError"]
    ELSE IF type = "convex_hull" /\ Collinear(xy) THEN [status |-> "QhullError"]
    ELSE [status |-> "ok", boundary_comp |-> ConvexBoundaryComp(type, xy)]

InitBuild ==
    /\ boundary_type \in BoundaryTypes
    /\ \E xy \in RingInputs :
          comp = [boundary |-> xy, has_comp |-> FALSE, boundary_comp |-> <<>>, n_wt |-> 0]
    /\ cache_input = [set |-> FALSE, pts |-> <<>>]
    /\ cache_output = <<>>
    /\ call = [op |-> "__init__", pts |-> <<>>]
    /\ ret = [status |-> "ok"]
    /\ n_grad_eval = 0

\* XYBoundaryConstraint.get_comp(n_wt): builds the component when the attribute
\* boundary_comp does not exist yet, returns the attribute
GetComp ==
    /\ \E n \in 1..MaxPts :
          /\ call' = [op |-> "get_comp", pts |-> <<>>, n_wt |-> n]
          /\ IF comp.has_comp
             THEN /\ ret' = [status |-> "ok", n_wt |-> comp.n_wt]
                  /\ UNCHANGED comp
             ELSE \E built \in {BuildComp(boundary_type, comp.boundary)} :
                     IF built.status = "ok"
                     THEN /\ comp' = [comp EXCEPT !.has_comp = TRUE,
                                                  !.boundary_comp = built.boundary_comp,
                                                  !.n_wt = n]
                          /\ ret' = [status |-> "ok", n_wt |-> n]
                     ELSE /\ ret' = [status |-> built.status]
                          /\ UNCHANGED comp
    /\ UNCHANGED <<boundary_type, cache_input, cache_output, n_grad_eval>>

\* distances of the built PolygonBoundaryComp
BuiltPolygonDistances ==
    /\ boundary_type = "polygon"
    /\ comp.has_comp
    /\ \E p \in PolygonPoints :
        /\ Called("distances", <<p>>)
        /\ \E r \in PolygonDistancesOutcomes(comp.boundary_comp, <<p>>,
                                             cache_input, cache_output) :
                  /\ cache_input' = r.cache_input
                  /\ cache_output' = r.cache_output
                  /\ ret' = r.ret
    /\ UNCHANGED <<boundary_type, comp, n_grad_eval>>

\* gradients of the built PolygonBoundaryComp
BuiltPolygonGradients ==
    /\ boundary_type = "polygon"
    /\ comp.has_comp
    /\ \E p \in PolygonPoints :
        /\ Called("gradients", <<p>>)
        /\ \E r \in PolygonGradientsOutcomes(comp.boundary_comp, <<p>>,
                                             cache_input, cache_output) :
                  /\ cache_input' = r.cache_input
                  /\ cache_output' = r.cache_output
                  /\ ret' = r.ret
    /\ UNCHANGED <<boundary_type, comp, n_grad_eval>>

\* distances of the built ConvexBoundaryComp: xy_boundary[:-1] against
\* unit_normals; ValueError when their lengths differ (the ring was taken to be
\* closed already because its first and last vertex coincide)
BuiltConvexDistances ==
    /\ boundary_type # "polygon"
    /\ comp.has_comp
    /\ \E pts \in ConvexQueries :
        /\ Called("distances", pts)
        /\ ret' = IF Len(comp.boundary_comp.xy_boundary) - 1
                        # Len(comp.boundary_comp.unit_normals)
                  THEN [status |-> "ValueError"]
                  ELSE [status |-> "ok",
                        value |-> ConvexDistancesOf(comp.boundary_comp, pts)]
    /\ UNCHANGED <<boundary_type, comp, cache_input, cache_output, n_grad_eval>>

NextBuild ==
    \/ GetComp
    \/ BuiltPolygonDistances
    \/ BuiltPolygonGradients
    \/ BuiltConvexDistances

SpecBuild == InitBuild /\ [][NextBuild]_vars

(***************************************************************************)
(* An optimisation run on a component that may have relaxation: the        *)
(* distances, gradients and compute_partials calls, and the gradient       *)
(* evaluations of the cost component in between.                           *)
(***************************************************************************)
\* the relaxation settings of a run: none, and (penalty, iterations) tuples,
\* which are taken as they are given
RunRelaxations == {NoRelaxation, Relaxation(2, 3), Relaxation(-1, 1)}

\* the 4 x 4 block with a bump of one cell on its right side
BumpBlock == Rect(0, 0, 4, 4) \cup {<<4, 1>>}

\* the zone lists of the multi-polygon components of a run
RunMultiInputs ==
    {<<[poly |-> Rect(0, 0, 4, 4), type |-> "i"], [poly |-> Rect(1, 1, 3, 3), type |-> "e"]>>,
     <<[poly |-> BumpBlock, type |-> "i"]>>}

\* the tolerances of simplify, in cell sides
Tolerances == {0, 1}

\* shapely's simplify on a zone: vertices within the tolerance of the simplified
\* outline are dropped, which removes the cells that stick out of the zone by no
\* more than the tolerance (the cells joined to the rest by one side only)
SimplifyZone(S, tolerance) ==
    IF tolerance < 1 THEN S
    ELSE {c \in S : Cardinality(EdgeNeighbours(c) \cap S) # 1}

\* simplify: bounds_poly is replaced and _setup_boundaries runs again; res_poly
\* is assigned before _poly_to_bound or get_boundary_properties can raise, the
\* boundaries and edge tables after them.  The cache is not touched.
Simplified(c, tolerance) ==
    LET bounds_poly == [k \in 1..Len(c.bounds_poly) |->
                           SimplifyZone(c.bounds_poly[k], tolerance)]
        res == calc_resulting_polygons(bounds_poly, c.types_bool, c.build)
        sb == setup_boundaries(poly_to_bound(res.domain), c.build.shell_ccw)
        c1 == [c EXCEPT !.bounds_poly = bounds_poly, !.res_poly = res.domain,
                        !.warnings = c.warnings \o res.warnings]
    IN IF sb.status # "ok" THEN [status |-> sb.status, comp |-> c1]
       ELSE [status |-> "ok",
             comp |-> [c1 EXCEPT !.boundaries = sb.boundaries,
                                 !.boundary_properties_list_all =
                                     sb.boundary_properties_list_all]]

InitRun ==
    /\ \/ \E xy \in {TriangleRing, LRing}, relaxation \in RunRelaxations :
            /\ boundary_type = "polygon"
            /\ comp = PolygonBoundaryComp(xy, relaxation)
       \/ \E in \in RunMultiInputs, relaxation \in RunRelaxations,
               build \in {b \in Builds : b.empty_is_polygon} :
            /\ boundary_type = "multi_polygon"
            /\ comp = MultiPolygonBoundaryComp(n_wt, in, relaxation, build)
    /\ cache_input = [set |-> FALSE, pts |-> <<>>]
    /\ cache_output = <<>>
    /\ call = [op |-> "__init__", pts |-> <<>>]
    /\ ret = [status |-> "ok"]
    /\ n_grad_eval = 0

\* the cost component evaluates its gradient once more, on any component
RunGradEval ==
    /\ n_grad_eval < MaxGradEval
    /\ n_grad_eval' = n_grad_eval + 1
    /\ Called("cost_gradient", <<>>)
    /\ ret' = [status |-> "ok"]
    /\ UNCHANGED <<boundary_type, comp, cache_input, cache_output>>

\* BoundaryBaseComp.compute_partials on a PolygonBoundaryComp: gradients returns
\* two arrays; with relaxation they are unpacked into dx, dy, dt, which raises
\* ValueError after gradients has run
PolygonComputePartials ==
    /\ boundary_type = "polygon"
    /\ \E pts \in Queries :
        /\ Called("compute_partials", pts)
        /\ \E r \in PolygonGradientsOutcomes(comp, pts, cache_input, cache_output) :
                  /\ cache_input' = r.cache_input
                  /\ cache_output' = r.cache_output
                  /\ ret' = IF r.ret.status # "ok" THEN [status |-> r.ret.status]
                            ELSE IF comp.relaxation.active THEN [status |-> "ValueError"]
                            ELSE [status |-> "ok", dxy |-> r.ret.value]
    /\ UNCHANGED <<boundary_type, comp, n_grad_eval>>

\* BoundaryBaseComp.compute_partials on a MultiPolygonBoundaryComp: gradients
\* returns two arrays without relaxation and three with it
MultiComputePartials ==
    /\ boundary_type = "multi_polygon"
    /\ \E pts \in Queries :
        /\ Called("compute_partials", pts)
        /\ \E r \in MultiGradientsOutcomes(comp, pts, cache_input, cache_output) :
                  /\ cache_input' = r.cache_input
                  /\ cache_output' = r.cache_output
                  /\ ret' = IF r.ret.status # "ok" THEN [status |-> r.ret.status]
                            ELSE IF comp.relaxation.active
                            THEN [status |-> "ok", dxy |-> r.ret.value, time |-> r.ret.dt]
                            ELSE [status |-> "ok", dxy |-> r.ret.value]
    /\ UNCHANGED <<boundary_type, comp, n_grad_eval>>

\* MultiPolygonBoundaryComp.simplify
MultiSimplify ==
    /\ boundary_type = "multi_polygon"
    /\ \E tolerance \in Tolerances :
        /\ call' = [op |-> "simplify", pts |-> <<>>, tolerance |-> tolerance]
        /\ \E r \in {Simplified(comp, tolerance)} :
              /\ comp' = r.comp
              /\ ret' = [status |-> r.status]
    /\ UNCHANGED <<boundary_type, cache_input, cache_output, n_grad_eval>>

NextRun ==
    \/ MultiSimplify
    \/ PolygonDistances
    \/ PolygonGradients
    \/ MultiDistances
    \/ MultiGradients
    \/ PolygonComputePartials
    \/ MultiComputePartials
    \/ RunGradEval

SpecRun == InitRun /\ [][NextRun]_vars

(***************************************************************************)
(* Reference geometry for the properties: membership of a point in a       *)
(* closed ring (first vertex repeated at the end), by crossing number      *)
(***************************************************************************)
OnSegment(P, A, B) == Cross2(Sub(B, A), Sub(P, A)) = 0 /\ Dot(Sub(P, A), Sub(P, B)) <= 0

OnRing(P, ring) == \E k \in 1..(Len(ring) - 1) : OnSegment(P, ring[k], ring[k + 1])

\* the ray from P towards +x crosses the edge A -> B
Crosses(P, A, B) ==
    /\ (A[2] > P[2]) # (B[2] > P[2])
    /\ IF B[2] > A[2]
       THEN (P[1] - A[1]) * (B[2] - A[2]) < (P[2] - A[2]) * (B[1] - A[1])
       ELSE (P[1] - A[1]) * (B[2] - A[2]) > (P[2] - A[2]) * (B[1] - A[1])

StrictlyInside(P, ring) ==
    /\ ~OnRing(P, ring)
    /\ Cardinality({k \in 1..(Len(ring) - 1) : Crosses(P, ring[k], ring[k + 1])}) % 2 = 1

StrictlyOutside(P, ring) == ~OnRing(P, ring) /\ ~StrictlyInside(P, ring)

\* the convex face distance fd = num / sqrt(len2) is the number v
FaceValue(fd, v) == Sgn(fd.num) = Sgn(v) /\ fd.num * fd.num = v * v * fd.len2

PolygonDistanceSign ==
    (boundary_type = "polygon" /\ call.op = "distances" /\ ret.status = "ok"
     /\ Len(ret.value) = Len(call.pts)) =>
        \A i \in 1..Len(call.pts) :
            LET P == call.pts[i]
                d == ret.value[i]
            IN /\ ~IsNan(d)
               /\ P \in Range(comp.xy_boundary) => (d.s = 0 \/ d.n = 0)
               /\ StrictlyInside(P, comp.xy_boundary) => (d.s > 0 /\ d.n > 0)
               /\ StrictlyOutside(P, comp.xy_boundary) => (d.s < 0 /\ d.n > 0)

\* the L-shaped polygon given clockwise, asked for a point outside it whose
\* nearest feature is the vertex (4,2), at distance -sqrt(2)
PolygonVertexNearest ==
    /\ boundary_type = "polygon"
    /\ comp = PolygonBoundaryComp(Reverse(LRing), NoRelaxation)
    /\ call = [op |-> "distances", pts |-> << <<5, 3>> >>]
    /\ ret.status = "ok"
    /\ ret.value = << [s |-> -1, n |-> 2, d |-> 1] >>

(***************************************************************************)
(* C3: CircleBoundaryComp.gradients returns, for a point that is not the   *)
(* center, the unit vector from the point toward the center, and for a     *)
(* point exactly at the center the zero gradient (0, 0).                   *)
(***************************************************************************)
CircleGradientTowardCenter ==
    (boundary_type = "circle" /\ call.op = "gradients") =>
        \A i \in 1..Len(call.pts) :
            LET V == Sub(call.pts[i], comp.center)
                g == ret.value[i]
            IN IF V = <<0, 0>> THEN g.x = 0 /\ g.y = 0
               ELSE g = [x |-> -V[1], y |-> -V[2], len2 |-> Norm2(V)]

(***************************************************************************)
(* C4: the one-slot cache is transparent: each distances or gradients      *)
(* call on a PolygonBoundaryComp or MultiPolygonBoundaryComp that returns, *)
(* returns what the uncached computation on the positions of that call     *)
(* gives (for a MultiPolygonBoundaryComp, before the relaxation offset).   *)
(***************************************************************************)
CacheTransparent ==
    (boundary_type \in {"polygon", "multi_polygon"}
     /\ call.op \in {"distances", "gradients"} /\ ret.status = "ok") =>
        LET uncached == IF boundary_type = "polygon" THEN PolygonCompute(comp, call.pts)
                        ELSE MultiNearest(MultiCompute(comp, call.pts), Len(call.pts)).out
            returned(i) == IF boundary_type = "polygon" \/ call.op = "gradients"
                           THEN ret.value[i] ELSE ret.value[i].distance
        IN /\ Len(ret.value) = Len(uncached)
           /\ \A i \in 1..Len(uncached) :
                  returned(i) = IF call.op = "distances" THEN uncached[i].distance
                                ELSE uncached[i].ddist

(***************************************************************************)
(* C5: satisfy leaves every already-feasible point where it is: for each   *)
(* boundary type, a point whose distance is non-negative (in convex mode:  *)
(* non-negative to every face) has the same x and y after satisfy(state)   *)
(* as before, also when other points of the state are moved.               *)
(***************************************************************************)
Feasible(P) ==
    CASE IsConvex ->
            \A j \in 1..comp.nVertices : FaceDistance(comp, P, j).num >= 0
      [] boundary_type = "polygon" -> PolygonCompute(comp, <<P>>)[1].distance.s >= 0
      [] boundary_type = "multi_polygon" ->
            MultiNearest(MultiCompute(comp, <<P>>), 1).out[1].distance.s >= 0
      [] boundary_type = "circle" -> ~CircleNegative(CircleDistance(comp, P))

SatisfyKeepsFeasible ==
    call.op = "satisfy" =>
        /\ Len(ret.state) = Len(call.pts)
        /\ \A i \in 1..Len(call.pts) :
              Feasible(call.pts[i]) => ret.state[i] = <<call.pts[i][1], call.pts[i][2], 1>>

\* a satisfy that returned, on a state with a feasible point that stayed and a
\* violating point that was moved
SatisfyMovedOnlyViolating ==
    /\ call.op = "satisfy"
    /\ ret.status = "ok"
    /\ \E i, k \in 1..Len(call.pts) :
          /\ Feasible(call.pts[i])
          /\ ~Feasible(call.pts[k])
          /\ ret.state[k] # <<call.pts[k][1], call.pts[k][2], 1>>
          /\ ret.state[i] = <<call.pts[i][1], call.pts[i][2], 1>>

(***************************************************************************)
(* The merge so far, seen from the state: the zone processed last, and the *)
(* domain and warnings before it                                           *)
(***************************************************************************)
Build == [empty_is_polygon |-> comp.empty_is_polygon]

\* the region a domain covers, and its total area
Covered(domain) == UNION Range(domain)

RECURSIVE TotalArea(_)
TotalArea(domain) ==
    IF domain = <<>> THEN 0 ELSE Area(Head(domain)) + TotalArea(Tail(domain))

NZones == Len(comp.bounds_poly)

LastZone == comp.bounds_poly[NZones]

Before ==
    calc_resulting_polygons(SubSeq(comp.bounds_poly, 1, NZones - 1),
                            SubSeq(comp.types_bool, 1, NZones - 1), Build)

FirstWarning == "First boundary should be an inclusion zone or it will be ignored"

\* a zone that is one polygon without holes
SimpleZone(S) == S # {} /\ Len(Parts(S)) = 1 /\ Holes(S) = <<>>

\* every cell of inner, and every cell around it, is a cell of outer
StrictlyWithin(inner, outer) ==
    \A c \in inner : \A dx, dy \in -1..1 : <<c[1] + dx, c[2] + dy>> \in outer

\* twice the signed area of the ring through the start points of edges from..to
EdgesDoubleArea(edges, from, to) ==
    DoubleArea(CloseRing([k \in 1..(to - from + 1) |-> edges[from + k - 1].A]))

(***************************************************************************)
(* C6: when an inclusion zone Z is processed against a non-empty domain,   *)
(* every component Z intersects is merged with Z by union, every component *)
(* Z does not intersect stays in the domain unchanged, and Z (merged or    *)
(* not) is appended once: the region covered afterwards is the region      *)
(* covered before united with Z.                                           *)
(***************************************************************************)
InclusionNeverRemoves ==
    (NZones >= 2 /\ comp.types_bool[NZones] = 1 /\ Before.domain # <<>>) =>
        LET hit == {d \in Range(Before.domain) : Intersects(d, LastZone)}
        IN /\ Covered(comp.domain) = Covered(Before.domain) \cup LastZone
           /\ \A d \in Range(Before.domain) \ hit : d \in Range(comp.domain)
           /\ (LastZone \cup UNION hit) \in Range(comp.domain)
           /\ Cardinality({k \in 1..Len(comp.domain) :
                              LastZone \subseteq comp.domain[k]}) = 1

(***************************************************************************)
(* C7: an inclusion zone followed by an exclusion zone strictly inside it  *)
(* merges to exactly one polygon with exactly one hole, of area            *)
(* area(inclusion) - area(exclusion); _poly_to_bound flattens it to two    *)
(* rings, the exterior tagged 1 and the hole tagged 0, and                 *)
(* get_boundary_properties orients the exterior counter-clockwise and the  *)
(* hole clockwise.                                                         *)
(***************************************************************************)
HoleFormed ==
    (/\ NZones = 2
     /\ comp.types_bool = <<1, 0>>
     /\ SimpleZone(comp.bounds_poly[1])
     /\ SimpleZone(comp.bounds_poly[2])
     /\ StrictlyWithin(comp.bounds_poly[2], comp.bounds_poly[1])) =>
        /\ Len(comp.domain) = 1
        /\ Holes(comp.domain[1]) = <<comp.bounds_poly[2]>>
        /\ Area(comp.domain[1]) = Area(comp.bounds_poly[1]) - Area(comp.bounds_poly[2])
        /\ ret.status \in {"running", "ok"}
        /\ ret.status = "ok" =>
              LET outer == Len(comp.boundaries[1].xy)
                  all == Len(comp.boundary_properties_list_all)
              IN /\ Len(comp.boundaries) = 2
                 /\ comp.boundaries[1].incl_excl = 1
                 /\ comp.boundaries[2].incl_excl = 0
                 /\ Range(comp.boundaries[1].xy) = Range(RingOf(comp.bounds_poly[1]))
                 /\ Range(comp.boundaries[2].xy) = Range(RingOf(comp.bounds_poly[2]))
                 /\ all = outer + Len(comp.boundaries[2].xy)
                 /\ EdgesDoubleArea(comp.boundary_properties_list_all, 1, outer)
                        = 2 * Cardinality(comp.bounds_poly[1])
                 /\ EdgesDoubleArea(comp.boundary_properties_list_all, outer + 1, all)
                        = -2 * Cardinality(comp.bounds_poly[2])

\* the 4 x 4 block with the 2 x 2 block in its middle excluded, constructed with
\* the exterior ring coming clockwise and the hole counter-clockwise
HoleConstructed ==
    /\ comp.bounds_poly = <<Rect(0, 0, 4, 4), Rect(1, 1, 3, 3)>>
    /\ comp.types_bool = <<1, 0>>
    /\ ret.status = "ok"
    /\ Len(comp.boundaries) = 2
    /\ DoubleArea(CloseRing(comp.boundaries[1].xy)) < 0
    /\ DoubleArea(CloseRing(comp.boundaries[2].xy)) > 0

(***************************************************************************)
(* C8: an exclusion zone processed while the domain is still empty is a    *)
(* no-op that emits a warning and raises no error, and the domain of any   *)
(* zone list is the domain of the list without its leading exclusion zones.*)
(***************************************************************************)
LeadingExclusionsIgnored ==
    LET lead == Cardinality({k \in 1..NZones : \A j \in 1..k : comp.types_bool[j] = 0})
        rest == calc_resulting_polygons(SubSeq(comp.bounds_poly, lead + 1, NZones),
                                        SubSeq(comp.types_bool, lead + 1, NZones), Build)
    IN /\ comp.domain = rest.domain
       /\ comp.warnings = [k \in 1..lead |-> FirstWarning] \o rest.warnings
       /\ (NZones >= 1 /\ comp.types_bool[NZones] = 0 /\ Before.domain = <<>>) =>
              /\ comp.domain = <<>>
              /\ comp.warnings = Append(Before.warnings, FirstWarning)
       /\ lead = NZones => ret.status \in {"running", "ok"}

\* a list of an exclusion zone, then an inclusion zone: constructed, with the
\* warning and the inclusion zone as the domain
LeadingExclusionConstructed ==
    /\ NZones = 2
    /\ comp.types_bool = <<0, 1>>
    /\ comp.warnings = <<FirstWarning>>
    /\ comp.domain = <<comp.bounds_poly[2]>>
    /\ ret.status = "ok"

(***************************************************************************)
(* C9: for any pair of disjoint zones A and B, with any tags and any       *)
(* areas, merging [A, B] and merging [B, A] give the same total feasible   *)
(* area.                                                                   *)
(***************************************************************************)
DisjointOrderIndependent ==
    (NZones = 2 /\ ~Intersects(comp.bounds_poly[1], comp.bounds_poly[2])) =>
        TotalArea(comp.domain) =
            TotalArea(calc_resulting_polygons(
                          <<comp.bounds_poly[2], comp.bounds_poly[1]>>,
                          <<comp.types_bool[2], comp.types_bool[1]>>, Build).domain)

(***************************************************************************)
(* C10: containment anomalies are each reported by a warning: an inclusion *)
(* zone inside an existing component leaves the domain unchanged, one      *)
(* containing an existing component overrides it, an exclusion zone        *)
(* containing an existing component removes it, each with a warning; and   *)
(* the resulting domain holds only non-empty polygons.                     *)
(***************************************************************************)
ContainmentWarned ==
    (NZones >= 2 /\ Before.domain # <<>>) =>
        LET inside == {d \in Range(Before.domain) : Contains(d, LastZone)}
            around == {d \in Range(Before.domain) : Contains(LastZone, d)}
            warned == Len(comp.warnings) > Len(Before.warnings)
        IN /\ (comp.types_bool[NZones] = 1 /\ inside # {}) =>
                  (Range(comp.domain) = Range(Before.domain) /\ warned)
           /\ (comp.types_bool[NZones] = 1 /\ inside = {} /\ around # {}) =>
                  (LastZone \in Range(comp.domain) /\ warned)
           /\ (comp.types_bool[NZones] = 0 /\ around # {}) =>
                  (Range(comp.domain) \cap around = {} /\ warned)
           /\ (inside # {} \/ around # {}) =>
                  \A k \in 1..Len(comp.domain) : comp.domain[k] # {}

(***************************************************************************)
(* C11: after _calc_resulting_polygons has processed any zone list, no     *)
(* component of the domain has area at or below the 1e-3 threshold, and no *)
(* component above the threshold was discarded because of the threshold:   *)
(* a component of the domain before the last zone that the zone does not   *)
(* intersect is still there.                                               *)
(***************************************************************************)
NoSliverKept ==
    /\ \A k \in 1..Len(comp.domain) : Area(comp.domain[k]) > AreaThreshold
    /\ (NZones >= 2 /\ Before.domain # <<>>) =>
           \A d \in Range(Before.domain) :
               (Area(d) > AreaThreshold /\ ~Intersects(d, LastZone)) =>
                   d \in Range(comp.domain)

(***************************************************************************)
(* C12: a supplied ring with zero signed area is rejected with a fatal     *)
(* error when the boundary is built, for every boundary type: get_comp on  *)
(* such a ring ends in an error where the ring is the boundary (polygon,   *)
(* convex hull), and no built component of any type has a boundary of zero *)
(* area.                                                                   *)
(***************************************************************************)
ZeroAreaRejected ==
    /\ (/\ call.op = "get_comp"
        /\ boundary_type \in {"polygon", "convex_hull"}
        /\ Collinear(comp.boundary)) =>
           (ret.status # "ok" /\ ~comp.has_comp)
    /\ comp.has_comp => DoubleArea(comp.boundary_comp.xy_boundary) # 0

(***************************************************************************)
(* C13: get_boundary_properties(ring, inclusion_zone) normalizes any ring  *)
(* of non-zero area, open or closed, in either winding: at most one        *)
(* reversal is needed, the edges A -> B it returns form a closed loop      *)
(* through the ring's vertices, the loop is counter-clockwise for an       *)
(* inclusion zone and clockwise for an exclusion zone, and normalizing the *)
(* normalized ring changes nothing.                                        *)
(***************************************************************************)
\* the winding of the closed ring v is not the requested one
WrongWinding(v, counter_clockwise) ==
    (counter_clockwise /\ DoubleArea(v) < 0) \/ (~counter_clockwise /\ DoubleArea(v) > 0)

RingNormalizedFor(ring, inclusion_zone) ==
    LET v == CloseRing(ring)
        bp == get_boundary_properties(ring, inclusion_zone)
        n == Len(bp.edges)
        loop == CloseRing([k \in 1..n |-> bp.edges[k].A])
    IN /\ bp.ok
       /\ WrongWinding(v, inclusion_zone) => ~WrongWinding(Reverse(v), inclusion_zone)
       /\ n = Len(v) - 1
       /\ \A k \in 1..n : bp.edges[k].B = bp.edges[IF k = n THEN 1 ELSE k + 1].A
       /\ \A k \in 1..n : bp.edges[k].A = bp.xy_boundary[k]
       /\ Range(bp.xy_boundary) = Range(ring)
       /\ (IF WrongWinding(v, inclusion_zone)
           THEN CloseRing(bp.xy_boundary) = Reverse(v)
           ELSE CloseRing(bp.xy_boundary) = v)
       /\ (inclusion_zone => DoubleArea(loop) > 0)
       /\ (~inclusion_zone => DoubleArea(loop) < 0)
       /\ get_boundary_properties(bp.xy_boundary, inclusion_zone) = bp

RingNormalized ==
    (boundary_type = "polygon" /\ DoubleArea(CloseRing(comp.boundary)) # 0) =>
        /\ RingNormalizedFor(comp.boundary, TRUE)
        /\ RingNormalizedFor(comp.boundary, FALSE)
        /\ comp.has_comp =>
              comp.boundary_comp.edges = get_boundary_properties(comp.boundary, TRUE).edges

\* a clockwise ring, given closed, built into a component whose edges run
\* counter-clockwise
ClockwiseRingBuilt ==
    /\ boundary_type = "polygon"
    /\ comp.has_comp
    /\ comp.boundary = Reverse(CloseRing(SquareRing))
    /\ comp.boundary_comp.xy_boundary = CloseRing(SquareRing)

(***************************************************************************)
(* C14: the relaxation offset added by MultiPolygonBoundaryComp.distances  *)
(* decays linearly in the iteration count, the number of gradient          *)
(* evaluations done so far: rate * horizon at iteration 0, 0 at iteration  *)
(* horizon and 0 afterwards.                                               *)
(***************************************************************************)
\* the schedule of the claim at iteration k
LinearDecay(relaxation, k) ==
    IF k >= relaxation.iterations THEN 0
    ELSE relaxation.penalty * (relaxation.iterations - k)

\* a distances call on a relaxed multi-polygon component has just returned
RelaxedDistancesReturned ==
    /\ boundary_type = "multi_polygon"
    /\ comp.relaxation.active
    /\ call.op = "distances"
    /\ ret.status = "ok"

OffsetDecaysFromRateTimesHorizon ==
    (RelaxedDistancesReturned /\ comp.relaxation.penalty > 0) =>
        \A i \in 1..Len(ret.value) :
            ret.value[i].offset = LinearDecay(comp.relaxation, n_grad_eval)

(***************************************************************************)
(* C15: for every (rate, horizon) pair accepted as a relaxation setting,   *)
(* the offset of calc_relaxation is never negative and never grows as the  *)
(* iteration count grows: the offset a distances call adds is at most the  *)
(* offset one gradient evaluation earlier.                                 *)
(***************************************************************************)
OffsetNeverGrows ==
    RelaxedDistancesReturned =>
        \A i \in 1..Len(ret.value) :
            /\ ret.value[i].offset >= 0
            /\ n_grad_eval >= 1 =>
                  ret.value[i].offset <= calc_relaxation(comp, n_grad_eval - 1)

(***************************************************************************)
(* C16: every point yields a finite, well-defined distance and gradient    *)
(* from a polygon component on every ring of non-zero area, a ring with a  *)
(* zero-length edge and a point on a vertex included: the call raises      *)
(* nothing, no value is undefined, and the reported value is that of the   *)
(* first edge attaining the minimum absolute distance.                     *)
(***************************************************************************)
\* the first edge of minimum absolute distance from P among finite distances
FirstNearest(P, edges) ==
    LET dist(k) == EdgeDistance(P, edges[k]).distance
        K == {k \in 1..Len(edges) : \A l \in 1..Len(edges) : ~AbsLess(dist(l), dist(k))}
    IN CHOOSE k \in K : \A l \in K : k <= l

AlwaysFinite ==
    (boundary_type = "polygon" /\ comp.has_comp /\ call.op \in {"distances", "gradients"}) =>
        LET P == call.pts[1]
            edges == comp.boundary_comp.edges
            k == FirstNearest(P, edges)
        IN /\ ret.status = "ok"
           /\ Len(ret.value) = 1
           /\ call.op = "distances" =>
                 /\ ~IsNan(ret.value[1])
                 /\ ret.value[1] = EdgeDistance(P, edges[k]).distance
           /\ call.op = "gradients" =>
                 /\ ret.value[1].len2 # 0
                 /\ ret.value[1] = EdgeDistance(P, edges[k]).ddist

(***************************************************************************)
(* C17: ConvexBoundaryComp.satisfy restores feasibility in one call for    *)
(* any hull and any points: the search window of every violating point     *)
(* holds a displacement satisfying all face constraints (so the call       *)
(* returns), and in the returned state every point has a non-negative      *)
(* distance to every face.                                                 *)
(***************************************************************************)
\* the sign of the distance to face j of the point (Q[1] / Q[3], Q[2] / Q[3])
ScaledFaceDistance(c, Q, j) ==
    LET v == c.xy_boundary[j]
        n == c.unit_normals[j]
    IN Dot(<<v[1] * Q[3] - Q[1], v[2] * Q[3] - Q[2]>>, <<n.x, n.y>>)

ConvexSatisfyRestores ==
    (IsConvex /\ call.op = "satisfy") =>
        /\ ret.status = "ok"
        /\ Len(ret.state) = Len(call.pts)
        /\ \A i \in 1..Len(ret.state) : \A j \in 1..comp.nVertices :
              ScaledFaceDistance(comp, ret.state[i], j) >= 0

(***************************************************************************)
(* C18: for every boundary component constructed with relaxation active,   *)
(* PolygonBoundaryComp and MultiPolygonBoundaryComp alike, gradients       *)
(* returns three components, so compute_partials completes and fills the   *)
(* x, y and time partials; with relaxation inactive it fills x and y only. *)
(***************************************************************************)
PartialsComplete ==
    (/\ call.op = "compute_partials"
     /\ Len(call.pts) = 1) =>
        /\ ret.status = "ok"
        /\ Len(ret.dxy) = 1
        /\ comp.relaxation.active <=> "time" \in DOMAIN ret

(***************************************************************************)
(* C19: with relaxation active, the time component returned by             *)
(* MultiPolygonBoundaryComp.gradients is, for every point, the change of   *)
(* the value of distances per unit increase of the iteration count at      *)
(* fixed positions: -rate while the offset decays, 0 once it is clamped.   *)
(***************************************************************************)
TimeGradientIsSlope ==
    (/\ boundary_type = "multi_polygon"
     /\ comp.relaxation.active
     /\ comp.relaxation.penalty > 0
     /\ call.op = "gradients"
     /\ ret.status = "ok") =>
        /\ Len(ret.dt) = comp.n_wt
        /\ \A i \in 1..Len(ret.dt) :
              ret.dt[i] = calc_relaxation(comp, n_grad_eval + 1)
                              - calc_relaxation(comp, n_grad_eval)

(***************************************************************************)
(* C20: after simplify has rebuilt the domain and the edge tables, every   *)
(* later distances or gradients call is computed against the rebuilt       *)
(* geometry, a call at the positions of the last query before simplify     *)
(* included (relaxation inactive).                                         *)
(***************************************************************************)
\* the values of the current geometry at the positions of the call
CurrentNearest == MultiNearest(MultiCompute(comp, call.pts), Len(call.pts)).out

\* two signed distances s * sqrt(n / d) are the same number
SameDistance(p, q) == p.s = q.s /\ p.n * q.d = q.n * p.d

\* two unit vectors (x, y) / sqrt(len2) are the same vector
SameDirection(g, h) == g.x * h.y = g.y * h.x /\ g.x * h.x + g.y * h.y > 0

UsesRebuiltGeometry ==
    (/\ boundary_type = "multi_polygon"
     /\ ~comp.relaxation.active
     /\ call.op \in {"distances", "gradients"}
     /\ ret.status = "ok"
     /\ cache_input.set
     /\ cache_input.pts = call.pts) =>
        /\ Len(ret.value) = Len(call.pts)
        /\ \A i \in 1..Len(ret.value) :
              IF call.op = "distances"
              THEN SameDistance(ret.value[i].distance, CurrentNearest[i].distance)
              ELSE SameDirection(ret.value[i], CurrentNearest[i].ddist)

(***************************************************************************)
(* C21: after any sequence of get_comp(n) calls on one constraint, the     *)
(* component a successful get_comp(n) returns is sized for the n of that   *)
(* call: its n_wt (and with it the length of its row template zeros)       *)
(* equals n.                                                               *)
(***************************************************************************)
SizedForCall ==
    (call.op = "get_comp" /\ ret.status = "ok") => ret.n_wt = call.n_wt

====
